---- MODULE Spec2Model ----
(***************************************************************************)
(* PackedFreelist<T> (src/src/lib.rs): a fixed-capacity pool that hands    *)
(* out generation-tagged 32-bit AllocationIDs for values kept in a Vec.    *)
(*                                                                         *)
(* The container's fields are the variables objects, objects_capacity,     *)
(* num_objects, object_alloc_ids, allocations, last_allocation and         *)
(* next_allocation.  Vectors are TLA+ sequences read through the 0-based   *)
(* helpers Get/Set.  A panic leaves in memory whatever the call had        *)
(* already written, and lastOp records how the call ended.  The remaining  *)
(* variables are history variables used to state the properties.           *)
(***************************************************************************)
EXTENDS Integers, Sequences, FiniteSets, TLC

\* ---------------------------------------------------------------- bounds
\* largest max_objects handed to new()
MaxObjects == 3
\* generation fields of the ids handed to remove() are 0..MaxGeneration
MaxGeneration == 1
\* insert() is called at most MaxFreshInserts times before the first remove()
MaxFreshInserts == 5
\* allocation_id += 0x10000 is tried on the MaxRawGeneration + 1 lowest and
\* the MaxRawGeneration + 1 highest generations
MaxRawGeneration == 12

\* ------------------------------------------------------- program constants
\* std::u16::MAX
ALLOC_INDEX_MASK == 65535
TOMBSTONE == 65535
\* the literal 0x10000 added to allocation_id by insert_alloc
GENERATION_UNIT == 65536
\* T::default() for the integer element types
DefaultValue == 0
\* returned-id field of lastOp when the call returned no id
NoId == -1

VARIABLES objects, objects_capacity, num_objects, object_alloc_ids,
          allocations, last_allocation, next_allocation,
          lastOp, held, issued, nInsertOk, nRemoveOk, freshInserts, removeCalled,
          freeOrder, raw_id

\* lastOp       the last call: op, arg (the id given to remove), outcome
\*              ("ok", "err" = AllocationError, "panic"), ret (the id insert
\*              returned) and again (a remove repeating a successful remove)
\* held         id -> value for the ids insert returned and remove(id) was
\*              not called on since
\* issued       every id insert returned
\* nInsertOk    inserts that returned an id;  nRemoveOk  removes that returned
\* freshInserts insert calls made so far, while remove was never called
\* removeCalled remove was called at least once
\* freeOrder    the slots that own no object, the one free for the longest
\*              time first (slots never bound, in index order, come first)
\* raw_id       an allocation_id as its two 16-bit halves, before (in_gen,
\*              in_slot) and after (gen, slot) the += 0x10000 of insert_alloc,
\*              with how the addition ended; used by SpecGeneration only
container == <<objects, objects_capacity, num_objects, object_alloc_ids,
               allocations, last_allocation, next_allocation>>
history == <<lastOp, held, issued, nInsertOk, nRemoveOk, freshInserts, removeCalled,
             freeOrder>>
vars == <<objects, objects_capacity, num_objects, object_alloc_ids,
          allocations, last_allocation, next_allocation,
          lastOp, held, issued, nInsertOk, nRemoveOk, freshInserts, removeCalled,
          freeOrder, raw_id>>

\* ------------------------------------------------- 0-based vector helpers
InBounds(v, i) == i >= 0 /\ i < Len(v)
Get(v, i) == v[i + 1]
Set(v, i, x) == [v EXCEPT ![i + 1] = x]
Swap(v, i, j) == [v EXCEPT ![i + 1] = v[j + 1], ![j + 1] = v[i + 1]]
Pop(v) == IF Len(v) = 0 THEN v ELSE SubSeq(v, 1, Len(v) - 1)

\* id & ALLOC_INDEX_MASK
AllocIndex(id) == id % (ALLOC_INDEX_MASK + 1)
\* the 16 most significant bits of an id
Generation(id) == id \div GENERATION_UNIT
MakeId(gen, slot) == gen * GENERATION_UNIT + slot
\* allocation_id += 0x10000 on a u32: (id + 2^16) mod 2^32, written on the two
\* 16-bit fields (the generation field wraps, the index field is untouched)
add_generation(id) ==
    IF Generation(id) = ALLOC_INDEX_MASK THEN AllocIndex(id) ELSE id + GENERATION_UNIT

\* allocation_id += 0x10000 on a u32 held as two 16-bit halves, added half by
\* half with the carry.  A sum past 2^32 - 1 panics in a build with overflow
\* checks, before allocation_id is written, and wraps in a build without.
add_generation_u32(gen, slot, overflow_checks) ==
    LET lo_sum == slot + (GENERATION_UNIT % (ALLOC_INDEX_MASK + 1))
        hi_sum == gen + (GENERATION_UNIT \div (ALLOC_INDEX_MASK + 1))
                      + (lo_sum \div (ALLOC_INDEX_MASK + 1))
    IN IF hi_sum > ALLOC_INDEX_MASK /\ overflow_checks
       THEN [outcome |-> "panic", gen |-> gen, slot |-> slot]
       ELSE [outcome |-> "ok", gen |-> hi_sum % (ALLOC_INDEX_MASK + 1),
             slot |-> lo_sum % (ALLOC_INDEX_MASK + 1)]

\* the values handed to insert(): the container never inspects a T, so two
\* values that differ from each other and from T::default() tell apart every
\* pair of storage cells
Values == {1, 2}
\* the ids a caller may hand to remove / contains / index
Ids == {MakeId(g, s) : g \in 0..MaxGeneration, s \in 0..MaxObjects}

\* ------------------------------------------------------------ PackedFreelist
\* the assert! of new (line 74)
new_assert(max_objects) == max_objects < TOMBSTONE

\* the allocations vector built by new (lines 80-91)
new_allocations(max_objects) ==
    [i \in 1..max_objects |->
        [allocation_id |-> i - 1,
         object_index |-> TOMBSTONE,
         next_allocation |-> IF i = max_objects THEN 0 ELSE i]]

\* (max_objects - 1) as u16 (line 85); at max_objects = 0 the usize subtraction
\* wraps in a build without overflow checks and the cast keeps 16 bits
new_last_allocation(max_objects) ==
    IF max_objects = 0 THEN TOMBSTONE ELSE max_objects - 1

\* how new(max_objects) ends: the assert! fails, or max_objects - 1 overflows
\* at max_objects = 0 in a build with overflow checks (the debug and test
\* profiles), or the container is returned
new_outcome(max_objects, overflow_checks) ==
    IF ~new_assert(max_objects) THEN "panic"
    ELSE IF max_objects = 0 /\ overflow_checks THEN "panic"
    ELSE "ok"

\* the sizes handed to new(): the small ones, and the first one the assert!
\* rejects (a table of 65534 records is not built here)
NewSizes == (0..MaxObjects) \cup {TOMBSTONE}

\* raw_id while no addition is looked at
NoRawId == [outcome |-> "none", in_gen |-> 0, in_slot |-> 0, gen |-> 0, slot |-> 0,
            overflow_checks |-> FALSE]

\* PackedFreelist::new(max_objects) in a build with or without overflow
\* checks; when new panics there is no container, the fields are left empty
\* and no operation is ever called
new(max_objects, overflow_checks) ==
        LET built == new_outcome(max_objects, overflow_checks) = "ok"
            n == IF built THEN max_objects ELSE 0
        IN  /\ objects = [i \in 1..n |-> DefaultValue]
            /\ objects_capacity = n
            /\ num_objects = 0
            /\ object_alloc_ids = [i \in 1..n |-> 0]
            /\ allocations = new_allocations(n)
            /\ last_allocation = IF built THEN new_last_allocation(max_objects) ELSE 0
            /\ next_allocation = 0
            /\ lastOp = [op |-> "new", arg |-> max_objects,
                         outcome |-> new_outcome(max_objects, overflow_checks),
                         ret |-> NoId, again |-> FALSE]
            /\ freeOrder = [i \in 1..n |-> i - 1]
            /\ held = <<>>
            /\ issued = {}
            /\ nInsertOk = 0
            /\ nRemoveOk = 0
            /\ freshInserts = 0
            /\ removeCalled = FALSE

Init ==
    /\ \E max_objects \in NewSizes, overflow_checks \in BOOLEAN :
          new(max_objects, overflow_checks)
    /\ raw_id = NoRawId

\* new() returned a container
Constructed == ~(lastOp.op = "new" /\ lastOp.outcome = "panic")

\* PackedFreelist::contains
contains(id) ==
    IF ~InBounds(allocations, AllocIndex(id))
    THEN FALSE
    ELSE LET allocation == Get(allocations, AllocIndex(id))
         IN allocation.allocation_id = id /\ allocation.object_index # TOMBSTONE

\* PackedFreelist::size
size == num_objects

\* capacity() written as the length of the objects vector
capacity_is_len == Len(objects)

\* PackedFreelist::capacity: the capacity of the objects vector, which
\* vec![T::default(); max_objects] sets to max_objects and pop() never shrinks
capacity == objects_capacity

\* Index::index: the value, or a panic from one of the two unwrap()s
index(id) ==
    IF ~InBounds(allocations, AllocIndex(id))
    THEN [outcome |-> "panic", value |-> DefaultValue]
    ELSE LET alloc == Get(allocations, AllocIndex(id))
         IN IF ~InBounds(objects, alloc.object_index)
            THEN [outcome |-> "panic", value |-> DefaultValue]
            ELSE [outcome |-> "ok", value |-> Get(objects, alloc.object_index)]

\* Deref::deref and IntoIterator::into_iter: the whole objects vector
deref == objects
into_iter == objects

\* the capacity test written with > in place of >=
insert_alloc_full_off_by_one == num_objects > capacity

\* the test of insert_alloc that refuses an allocation
insert_alloc_full == num_objects >= capacity

\* PackedFreelist::insert_alloc taking the record at slot head: how the call
\* ends and the fields it leaves
insert_alloc_at(head) ==
    IF insert_alloc_full \/ ~InBounds(allocations, head)
    THEN [outcome |-> "err", allocation_index |-> head,
          allocations |-> allocations, next_allocation |-> next_allocation,
          object_alloc_ids |-> object_alloc_ids, num_objects |-> num_objects,
          allocation_id |-> NoId, object_index |-> TOMBSTONE]
    ELSE LET allocation == Get(allocations, head)
             new_id == add_generation(allocation.allocation_id)
             new_index == num_objects % (TOMBSTONE + 1)
             bound == [allocation EXCEPT !.allocation_id = new_id,
                                         !.object_index = new_index]
         IN IF ~InBounds(object_alloc_ids, num_objects)
            THEN [outcome |-> "panic", allocation_index |-> head,
                  allocations |-> Set(allocations, head, bound),
                  next_allocation |-> allocation.next_allocation,
                  object_alloc_ids |-> object_alloc_ids, num_objects |-> num_objects,
                  allocation_id |-> new_id, object_index |-> new_index]
            ELSE [outcome |-> "ok", allocation_index |-> head,
                  allocations |-> Set(allocations, head, bound),
                  next_allocation |-> allocation.next_allocation,
                  object_alloc_ids |-> Set(object_alloc_ids, num_objects, new_id),
                  num_objects |-> num_objects + 1,
                  allocation_id |-> new_id, object_index |-> new_index]

\* insert_alloc taking the record at the tail cursor of the queue
insert_alloc_from_tail == insert_alloc_at(last_allocation)

\* PackedFreelist::insert_alloc: it takes the record at the head of the queue
insert_alloc == insert_alloc_at(next_allocation)

\* the outcome of insert(val): "ok", "err" (AllocationError) or "panic"
insert_outcome ==
    IF insert_alloc.outcome = "ok"
    THEN IF InBounds(objects, insert_alloc.object_index) THEN "ok" ELSE "panic"
    ELSE insert_alloc.outcome

HeldWith(id, val) ==
    [x \in (DOMAIN held) \cup {id} |-> IF x = id THEN val ELSE held[x]]
HeldWithout(id) ==
    [x \in (DOMAIN held) \ {id} |-> held[x]]

\* PackedFreelist::insert
Insert(val) ==
    /\ Constructed
    /\ removeCalled \/ freshInserts < MaxFreshInserts
    /\ allocations' = insert_alloc.allocations
    /\ next_allocation' = insert_alloc.next_allocation
    /\ object_alloc_ids' = insert_alloc.object_alloc_ids
    /\ num_objects' = insert_alloc.num_objects
    /\ objects' = IF insert_outcome = "ok"
                  THEN Set(objects, insert_alloc.object_index, val)
                  ELSE objects
    /\ UNCHANGED <<objects_capacity, last_allocation>>
    /\ lastOp' = [op |-> "insert", arg |-> 0, outcome |-> insert_outcome,
                  ret |-> IF insert_outcome = "ok" THEN insert_alloc.allocation_id ELSE NoId,
                  again |-> FALSE]
    /\ held' = IF insert_outcome = "ok" THEN HeldWith(insert_alloc.allocation_id, val) ELSE held
    /\ issued' = IF insert_outcome = "ok" THEN issued \cup {insert_alloc.allocation_id} ELSE issued
    /\ nInsertOk' = IF insert_outcome = "ok" THEN nInsertOk + 1 ELSE nInsertOk
    /\ freshInserts' = IF removeCalled THEN freshInserts ELSE freshInserts + 1
    /\ freeOrder' = IF insert_alloc.outcome = "err"
                    THEN freeOrder
                    ELSE SelectSeq(freeOrder, LAMBDA s : s # insert_alloc.allocation_index)
    /\ UNCHANGED <<nRemoveOk, removeCalled, raw_id>>

\* the two panic!()s of remove, num_objects - 1 at num_objects = 0 (an overflow
\* panic, or a wrapped index that objects.swap rejects) and the bounds check
\* of objects.swap: all of them happen before remove writes anything
remove_panics(id) ==
    IF ~InBounds(allocations, AllocIndex(id))
    THEN TRUE
    ELSE LET allocation == Get(allocations, AllocIndex(id))
         IN \/ ~InBounds(objects, allocation.object_index)
            \/ num_objects = 0
            \/ /\ allocation.object_index # num_objects - 1
               /\ ~InBounds(objects, num_objects - 1)

\* remove without the fix-up of the moved object's record
remove_fixup_skipped(object_index, last) == allocations

\* the allocations vector after the swap of remove (lines 133-138) has fixed
\* up the record of the object that was moved from position last
remove_fixup(object_index, last) ==
    IF object_index # last
    THEN LET alloc_index == AllocIndex(Get(object_alloc_ids, last))
         IN Set(allocations, alloc_index,
                [Get(allocations, alloc_index) EXCEPT !.object_index = object_index])
    ELSE allocations

\* remove without its last write: the record keeps its object_index
remove_tombstone_skipped(allocs, slot) == allocs

\* the last write of remove (lines 150-153): the record owns no object
remove_tombstone(allocs, slot) ==
    Set(allocs, slot, [Get(allocs, slot) EXCEPT !.object_index = TOMBSTONE])

\* history: this remove(id) directly follows a remove(id) that succeeded
remove_again(id) ==
    lastOp.op = "remove" /\ lastOp.arg = id /\ lastOp.outcome = "ok"

\* PackedFreelist::remove
Remove(id) ==
    /\ Constructed
    /\ IF remove_panics(id)
       THEN /\ UNCHANGED container
            /\ lastOp' = [op |-> "remove", arg |-> id, outcome |-> "panic", ret |-> NoId,
                         again |-> remove_again(id)]
            /\ UNCHANGED <<nRemoveOk, freeOrder>>
       ELSE LET slot == AllocIndex(id)
                allocation == Get(allocations, slot)
                last_index == AllocIndex(allocation.allocation_id)
                object_index == allocation.object_index
                last == num_objects - 1
                fixed == remove_fixup(object_index, last)
                linked == Set(fixed, last_allocation,
                              [Get(fixed, last_allocation) EXCEPT !.next_allocation = last_index])
            IN /\ objects' = Pop(IF object_index # last
                                 THEN Swap(objects, last, object_index)
                                 ELSE objects)
               /\ object_alloc_ids' = IF object_index # last
                                      THEN Set(object_alloc_ids, object_index,
                                               Get(object_alloc_ids, last))
                                      ELSE object_alloc_ids
               /\ num_objects' = num_objects - 1
               /\ allocations' = remove_tombstone(linked, slot)
               /\ last_allocation' = last_index
               /\ UNCHANGED <<objects_capacity, next_allocation>>
               /\ lastOp' = [op |-> "remove", arg |-> id, outcome |-> "ok", ret |-> NoId,
                            again |-> remove_again(id)]
               /\ nRemoveOk' = nRemoveOk + 1
               /\ freeOrder' = Append(freeOrder, slot)
    /\ held' = HeldWithout(id)
    /\ removeCalled' = TRUE
    /\ freshInserts' = 0
    /\ UNCHANGED <<issued, nInsertOk, raw_id>>

Next ==
    \/ \E val \in Values : Insert(val)
    \/ \E id \in Ids : Remove(id)

Spec == Init /\ [][Next]_vars

\* callers that keep to the contract: remove is only called with an id that
\* insert returned and that has not been removed since
NextContract ==
    \/ \E val \in Values : Insert(val)
    \/ \E id \in DOMAIN held : Remove(id)

SpecContract == Init /\ [][NextContract]_vars

\* ------------------------------------------ the generation arithmetic alone
\* the generations and slot indices an allocation_id is made of for the
\* addition: the lowest and the highest generations, the slots of the small
\* tables and the highest slot a table can have
RawGenerations == (0..MaxRawGeneration)
                     \cup ((ALLOC_INDEX_MASK - MaxRawGeneration)..ALLOC_INDEX_MASK)
RawSlots == (0..MaxObjects) \cup {TOMBSTONE - 2}

\* a table record holds any allocation_id; the container itself is a new(1)
GenerationInit ==
    /\ new(1, FALSE)
    /\ \E g \in RawGenerations, s \in RawSlots, overflow_checks \in BOOLEAN :
          raw_id = [outcome |-> "input", in_gen |-> g, in_slot |-> s,
                    gen |-> g, slot |-> s, overflow_checks |-> overflow_checks]

\* line 175 of insert_alloc: allocation.allocation_id += 0x10000
AddGeneration ==
    /\ raw_id.outcome = "input"
    /\ LET sum == add_generation_u32(raw_id.in_gen, raw_id.in_slot, raw_id.overflow_checks)
       IN raw_id' = [raw_id EXCEPT !.outcome = sum.outcome,
                                   !.gen = sum.gen, !.slot = sum.slot]
    /\ UNCHANGED <<container, history>>

SpecGeneration == GenerationInit /\ [][AddGeneration]_vars

\* ------------------------------------------------------------- properties
\* every id a record currently carries, next to the ids a caller may try
KnownIds == Ids \cup issued \cup {allocations[i].allocation_id : i \in 1..Len(allocations)}

\* the step is a call of insert / of remove(id)
InsertStep == lastOp'.op = "insert"
RemoveStep(id) == lastOp'.op = "remove" /\ lastOp'.arg = id

\* the step is a remove(id) that directly follows a successful remove(id) of
\* an id that insert returned
SecondRemoveStep ==
    lastOp'.op = "remove" /\ lastOp'.again /\ lastOp'.arg \in issued

\* C1: every id returned by insert(v) and not itself removed since indexes
\* exactly v, whatever else was inserted or removed in between.
C1_IndexReturnsOwnValue ==
    \A id \in DOMAIN held : index(id) = [outcome |-> "ok", value |-> held[id]]

\* C2: contains(x) is true exactly for the ids x that some insert returned and
\* that remove(x) has not been called on since.
C2_ContainsIffHeld ==
    \A x \in KnownIds : contains(x) <=> x \in DOMAIN held

\* C3: insert fails if and only if size() == capacity(); below capacity it
\* succeeds, returns an id and that id is contained afterwards.
C3_InsertFailsIffFull ==
    [][InsertStep =>
         /\ (lastOp'.outcome # "ok") <=> (size = capacity)
         /\ size < capacity =>
              \E x \in KnownIds' : x = lastOp'.ret /\ contains(x)']_vars

\* C4: on a freshly created container of capacity n the first n inserts in a
\* row succeed and the (n+1)-th returns AllocationError, the container keeping
\* its n objects and its capacity n.
C4_FreshFillThenError ==
    (~removeCalled /\ lastOp.op = "insert") =>
        IF freshInserts <= Len(allocations)
        THEN lastOp.outcome = "ok" /\ size = freshInserts /\ contains(lastOp.ret)
        ELSE /\ lastOp.outcome = "err"
             /\ size = Len(allocations)
             /\ capacity = Len(allocations)

\* C4 witness: the (n+1)-th insert in a row on a fresh container was refused
C4_Witness ==
    /\ ~removeCalled
    /\ lastOp.op = "insert"
    /\ freshInserts = Len(allocations) + 1
    /\ lastOp.outcome = "err"
    /\ Len(allocations) >= 2

\* C5: an insert that binds a slot bound before returns an id with the same
\* slot index and the next generation, and no insert returns an id that an
\* earlier insert returned (capacity 1: insert, remove, insert gives two ids).
C5_IdFreshness ==
    [][InsertStep =>
         /\ lastOp'.outcome = "ok" => lastOp'.ret \notin issued
         /\ (~insert_alloc_full
               /\ Generation(Get(allocations, next_allocation).allocation_id) >= 1) =>
              /\ lastOp'.outcome = "ok"
              /\ AllocIndex(lastOp'.ret) = next_allocation
              /\ Generation(lastOp'.ret) =
                   Generation(Get(allocations, next_allocation).allocation_id) + 1]_vars

\* what a caller can observe of the container through an id x
Observed(x) == <<contains(x), index(x)>>

\* C6 as stated: after a successful remove(id) of an id that insert returned,
\* a second remove(id) fails
\* with NotFound and changes neither the size, nor which ids are contained,
\* nor the value any id indexes.
C6_SecondRemoveNotFound ==
    [][SecondRemoveStep =>
         /\ lastOp'.outcome = "not_found"
         /\ size' = size
         /\ \A x \in KnownIds : Observed(x)' = Observed(x)]_vars

\* C6 amended: after a successful remove(id) of an id that insert returned,
\* a second remove(id) panics
\* (remove has no NotFound result) and changes neither the size, nor which
\* ids are contained, nor the value any id indexes.
C6_SecondRemovePanics ==
    [][SecondRemoveStep =>
         /\ lastOp'.outcome = "panic"
         /\ size' = size
         /\ \A x \in KnownIds : Observed(x)' = Observed(x)]_vars

\* C6 witness: remove(id) was called right after a successful remove(id) of
\* an id that insert had returned, while another id is still live
C6_Witness ==
    /\ lastOp.op = "remove"
    /\ lastOp.again
    /\ lastOp.arg \in issued
    /\ lastOp.outcome = "panic"
    /\ \E x \in DOMAIN held : contains(x) /\ index(x).outcome = "ok"

\* C7: remove(x) of an id whose slot is bound to a live value under another
\* generation fails with NotFound and removes nothing.
C7_StaleRemoveRemovesNothing ==
    [][\A x \in Ids :
         (/\ RemoveStep(x)
          /\ InBounds(allocations, AllocIndex(x))
          /\ Get(allocations, AllocIndex(x)).object_index # TOMBSTONE
          /\ ~contains(x)) =>
            /\ lastOp'.outcome = "not_found"
            /\ size' = size
            /\ \A y \in KnownIds : Observed(y)' = Observed(y)]_vars

\* C8: size() equals the number of successful inserts minus the number of
\* successful removes.
C8_SizeIsInsertsMinusRemoves ==
    size = nInsertOk - nRemoveOk

\* C9: the slice view and into_iter have exactly size() elements, and they
\* are the values of the live ids, each at the position its id indexes.
C9_ViewIsLiveValues ==
    /\ Len(deref) = size
    /\ Len(into_iter) = size
    /\ \A i \in 1..Len(deref) :
          \E id \in DOMAIN held :
              /\ contains(id)
              /\ Get(allocations, AllocIndex(id)).object_index = i - 1
              /\ deref[i] = held[id]

\* C10: index(x) panics for every id x that is not contained.
C10_IndexPanicsUnlessContained ==
    \A x \in KnownIds : ~contains(x) => index(x).outcome = "panic"

\* C11: new(n) returns a container with capacity() = n, size() = 0 and no id
\* contained for every n from 0 to 65534, and is rejected for every larger n.
C11_NewAcceptsZeroTo65534 ==
    /\ new_assert(TOMBSTONE - 1)
    /\ lastOp.op = "new" =>
          IF lastOp.arg <= TOMBSTONE - 1
          THEN /\ lastOp.outcome = "ok"
               /\ capacity = lastOp.arg
               /\ size = 0
               /\ \A x \in KnownIds : ~contains(x)
          ELSE lastOp.outcome = "panic"

\* C12: after any sequence of inserts and removes, successful or not,
\* capacity() is still the max_objects given to new() (the length new gave to
\* the reverse map and the table) and size() <= capacity().
C12_CapacityFixedAndBoundsSize ==
    Constructed =>
        /\ capacity = Len(object_alloc_ids)
        /\ capacity = Len(allocations)
        /\ size <= capacity

\* C12 witness: inserts and removes have succeeded, the last insert failed and
\* the container is full
C12_Witness ==
    /\ Constructed
    /\ nInsertOk >= 2
    /\ nRemoveOk >= 1
    /\ lastOp.op = "insert"
    /\ lastOp.outcome # "ok"
    /\ size = capacity

\* the table indices of the records that own an object (object_index is not
\* the tombstone)
LiveRecords == {i \in 1..Len(allocations) : allocations[i].object_index # TOMBSTONE}

\* C13: the records whose object_index is not the tombstone correspond one to
\* one to the positions 0..size()-1 (there are size() of them, with distinct
\* positions, all below size()), and at every position p < size() the reverse
\* map holds the current id of the record whose object_index is p.
C13_PackingInvariant ==
    Constructed =>
        /\ Cardinality(LiveRecords) = size
        /\ \A i \in LiveRecords : allocations[i].object_index < size
        /\ \A i, j \in LiveRecords :
             i # j => allocations[i].object_index # allocations[j].object_index
        /\ \A p \in 0..(size - 1) :
             \E i \in LiveRecords :
                /\ allocations[i].object_index = p
                /\ Get(object_alloc_ids, p) = allocations[i].allocation_id

\* the slots of the records that own no object
FreeSlots == {i \in 0..(Len(allocations) - 1) : Get(allocations, i).object_index = TOMBSTONE}

\* the slots met by following the next_allocation links for k steps from slot
RECURSIVE QueueWalk(_, _)
QueueWalk(slot, k) ==
    IF k = 0 THEN <<>>
    ELSE IF ~InBounds(allocations, slot) THEN <<slot>>
    ELSE <<slot>> \o QueueWalk(Get(allocations, slot).next_allocation, k - 1)

\* C14: following the next_allocation links from the head of the queue for
\* capacity() - size() steps visits every free record exactly once and no live
\* record, and ends at the tail cursor last_allocation; so the record insert
\* dequeues is free, also after a remove that found the queue empty.
C14_FreeQueueInvariant ==
    Constructed =>
        LET k == capacity - size
            walk == QueueWalk(next_allocation, k)
        IN /\ Len(walk) = k
           /\ {walk[i] : i \in 1..Len(walk)} = FreeSlots
           /\ Cardinality(FreeSlots) = k
           /\ k > 0 => walk[k] = last_allocation

\* C15: every successful insert binds the slot that has been free for the
\* longest time: the slots never bound in index order first, then the freed
\* slots in the order of their removes.
C15_FifoReuseOrder ==
    [][(InsertStep /\ lastOp'.outcome = "ok") =>
         /\ freeOrder # <<>>
         /\ AllocIndex(lastOp'.ret) = Head(freeOrder)]_vars

\* C15 witness: an insert succeeded after a remove, while a slot freed by a
\* remove was waiting in the queue next to another free slot
C15_Witness ==
    /\ lastOp.op = "insert"
    /\ lastOp.outcome = "ok"
    /\ nRemoveOk >= 1
    /\ Len(freeOrder) >= 2
    /\ \E i \in 1..Len(freeOrder) :
          Generation(Get(allocations, freeOrder[i]).allocation_id) >= 1

\* what C16 says a successful remove(id) of a live id does and leaves alone
RemoveFrame(id) ==
    LET slot == AllocIndex(id)
        p == Get(allocations, slot).object_index
        last == num_objects - 1
        moved == AllocIndex(Get(object_alloc_ids, last))
        slots == 0..(Len(allocations) - 1)
    IN /\ size' = size - 1
       /\ p # last =>
            /\ Get(objects', p) = Get(objects, last)
            /\ Get(object_alloc_ids', p) = Get(object_alloc_ids, last)
            /\ Get(allocations', moved).object_index = p
       /\ \A i \in slots :
            (i # slot /\ (p = last \/ i # moved)) =>
               Get(allocations', i).object_index = Get(allocations, i).object_index
       /\ \A q \in 0..(last - 1) :
            q # p => /\ Get(objects', q) = Get(objects, q)
                     /\ Get(object_alloc_ids', q) = Get(object_alloc_ids, q)
       /\ Get(allocations', slot).object_index = TOMBSTONE
       /\ \A i \in slots :
            Get(allocations', i).allocation_id = Get(allocations, i).allocation_id

\* C16: a successful remove(id) of a live id at position p, with last =
\* size() - 1, relocates at most one value: if p # last the value and the
\* reverse-map entry of position last end up at p and that value's record gets
\* object_index p; every other record keeps its object_index, the other values
\* keep their packed order, the removed record's object_index becomes the
\* tombstone and no record's id changes.
C16_RemoveRelocatesAtMostOne ==
    [][\A id \in Ids :
         (RemoveStep(id) /\ lastOp'.outcome = "ok" /\ contains(id)) =>
            RemoveFrame(id)]_vars

\* C16 witness: a remove of an id that insert returned has succeeded and left
\* two live values, the one that was last now packed before an older one
C16_Witness ==
    /\ lastOp.op = "remove"
    /\ lastOp.outcome = "ok"
    /\ lastOp.arg \in issued
    /\ size = 2
    /\ AllocIndex(Get(object_alloc_ids, 0)) > AllocIndex(Get(object_alloc_ids, 1))
    /\ contains(Get(object_alloc_ids, 0))
    /\ contains(Get(object_alloc_ids, 1))

C18_FailedInsertChangesNothing ==
    [][(InsertStep /\ lastOp'.outcome # "ok") => UNCHANGED container]_vars

====
